---- MODULE Spec2Model ----
(***************************************************************************)
(* Model of the stock-prediction frontend:                                 *)
(*   - StockPage, the per-ticker dashboard (next-app/app/[stock]/page.tsx,  *)
(*     second component of the file, lines 44-183): seven useState cells,   *)
(*     one effect keyed on the upper-cased ticker that joins four fetches   *)
(*     with Promise.all, and the render function;                           *)
(*   - getSuggestions, the ranking function of the search page, in its      *)
(*     network-backed variant (unnamed/part_003) and its static variant     *)
(*     (next-app/app/page.tsx, lines 261-281).                              *)
(* Strings are sequences of one-character strings, so that trim,            *)
(* toLowerCase, toUpperCase, startsWith and localeCompare are computed      *)
(* character by character.  A nullable value (T | null) is a set with at    *)
(* most one element: Null is {} and Some(v) is {v}.                         *)
(***************************************************************************)
EXTENDS Integers, Sequences, FiniteSets, TLC

VARIABLES
    \* ---- StockPage ([stock]/page.tsx) ----
    mounted,        \* whether a StockPage instance is mounted
    raw,            \* params.stock, the route parameter
    predictedPrice, \* useState<number | null>(null)
    news,           \* useState<NewsItem[]>([])
    reddit,         \* useState<RedditItem[]>([])
    financials,     \* useState<Financials | null>(null)
    direction,      \* useState<string | null>(null)
    confidence,     \* useState<number | null>(null)
    error,          \* useState<string | null>(null)
    loads,          \* the Promise.all aggregates started by the effect, oldest first
    failures,       \* how many requests of this instance have failed so far
    \* ---- Home (search page) ----
    query,          \* the value handed to getSuggestions
    stockData,      \* the candidate list (network variant)
    suggestions,    \* the last result of getSuggestions
    ranked,         \* which variant produced suggestions: "none", "network", "static"
    variant,        \* which search page is open: "network" (part_003) or "static" (page.tsx)
    debouncedQuery, \* useDebounce(query, 300)
    inflight,       \* lookups fetched from /api/finnhub-stocks and not yet answered
    latest,         \* the lookup fetched last: its query, whether it is outstanding, its list
    reply,          \* the answer the last completed lookup got
    pushed,         \* the arguments of router.push, oldest first
    event,          \* the handler of the search page that ran last
    \* ---- GET /api/finnhub-stocks (route.ts) ----
    apiKey,         \* process.env.FINNHUB_API_KEY
    serverPc,       \* "idle", or "awaiting" the provider at line 40
    exchange,       \* the exchange of the request being handled
    upstreamRequests, \* the requests sent to the provider, oldest first
    upstream,       \* what the provider answered to the request handled last
    serverLog,      \* the console.error lines, oldest first
    response        \* the response returned last

dashVars == <<mounted, raw, predictedPrice, news, reddit, financials, direction,
              confidence, error, loads, failures>>
rankVars == <<query, stockData, suggestions, ranked>>
homeVars == <<variant, debouncedQuery, inflight, latest, reply, pushed, event>>
routeVars == <<apiKey, serverPc, exchange, upstreamRequests, upstream, serverLog, response>>
vars == <<mounted, raw, predictedPrice, news, reddit, financials, direction,
          confidence, error, loads, failures, query, stockData, suggestions, ranked,
          variant, debouncedQuery, inflight, latest, reply, pushed, event,
          apiKey, serverPc, exchange, upstreamRequests, upstream, serverLog, response>>

(***************************************************************************)
(* Bounds of the model.                                                    *)
(***************************************************************************)
\* Aggregate loads one StockPage instance may start before it is remounted.
MaxLoads == 2
\* Requests that may fail (error status or transport error) per instance.
MaxFailures == 2
\* Longest query typed into the search box.
MaxQueryLen == 3
\* Longest candidate list enumerated with repetitions and in every order.
MaxCands == 2
\* Lookups of the search page that may be outstanding at a time.
MaxInflight == 2
\* Navigation requests one search page instance may issue.
MaxPushes == 1
\* Requests the symbol-lookup endpoint handles in one run.
MaxRequests == 2

(***************************************************************************)
(* Strings.                                                                *)
(***************************************************************************)
Null == {}
Some(v) == {v}

Whitespace == {" "}

\* String.prototype.toLowerCase, per character.
LowerChar(c) ==
    CASE c = "A" -> "a" [] c = "D" -> "d" [] c = "L" -> "l"
      [] c = "M" -> "m" [] c = "P" -> "p" [] OTHER -> c

\* String.prototype.toUpperCase, per character.
UpperChar(c) ==
    CASE c = "a" -> "A" [] c = "d" -> "D" [] c = "l" -> "L"
      [] c = "m" -> "M" [] c = "p" -> "P" [] OTHER -> c

toLowerCase(s) == [k \in 1..Len(s) |-> LowerChar(s[k])]
toUpperCase(s) == [k \in 1..Len(s) |-> UpperChar(s[k])]

(***************************************************************************)
(* StockPage: the dashboard aggregate.                                     *)
(***************************************************************************)
\* The four requests of one load, in the order of the Promise.all array.
Sections == {"price", "news", "reddit", "financials"}

\* Route parameters used by the model; <<>> stands for a missing parameter,
\* which line 57 turns into "".
Routes == { <<>>, <<"a", "a">>, <<"A", "A">>, <<"p", "l">> }

\* Lines 56-58: const ticker = ... raw ?? ""; const T = ticker.toUpperCase().
TickerOf(r) == toUpperCase(r)
T == TickerOf(raw)

\* A request is pending, or has completed: "ok" (a response with r.ok true),
\* "status" (a response with r.ok false), "transport" (fetch itself rejected).
Outcomes == {"ok", "status", "transport"}
FailOutcomes == {"status", "transport"}

\* The backend the model runs against: the body r.json() yields for request s
\* of load i, a load for ticker t.  Bodies differ between loads and between
\* sections, so that a value tells its origin.  For the ticker PL the backend
\* answers with bodies in which consumed fields are missing or empty.
JsonOf(i, t, s) ==
    IF t = <<"P", "L">>
    THEN CASE s = "price" -> [detail |-> "no model"]
           [] s = "news" -> [news |-> <<[headline |-> 200 + i, sentiment |-> "positive"]>>]
           [] s = "reddit" -> [reddit |-> <<>>]
           [] s = "financials" -> [financials |-> [revenue |-> 400 + i]]
    ELSE CASE s = "price" -> [predicted_price |-> 100 + i]
           [] s = "news" -> [news |-> <<[headline |-> 200 + i, sentiment |-> "positive"]>>]
           [] s = "reddit" -> [reddit |-> <<[post |-> 300 + i, sentiment |-> "negative"]>>]
           [] s = "financials" -> [financials |-> [revenue |-> 400 + i],
                                   direction |-> "UP", confidence |-> 500 + i]

\* json.f ?? dflt for a nullable state cell.
\* OrNull_Zero is json.f ?? 0.
OrNull_Zero(json, f) == IF f \in DOMAIN json THEN Some(json[f]) ELSE Some(0)

OrNull(json, f) == IF f \in DOMAIN json THEN Some(json[f]) ELSE Null
\* json.f ?? [] for a list state cell.
OrEmpty(json, f) == IF f \in DOMAIN json THEN json[f] ELSE <<>>

\* Lines 75, 81, 87, 94: the literal each section rejects with.
NamedFailure(s) ==
    CASE s = "price" -> "Price API failed"
      [] s = "news" -> "News API failed"
      [] s = "reddit" -> "Reddit API failed"
      [] s = "financials" -> "Financials API failed"

\* The rejection of one element of the Promise.all array, as line 105 prints
\* it with String(err).  A response that is not ok rejects with the section's
\* literal; a rejected fetch skips the .then((r) => ...) of its element and
\* keeps the TypeError of fetch.
Rejection(s, outcome) ==
    IF outcome = "status" THEN NamedFailure(s) ELSE "TypeError: Failed to fetch"

\* Promise.all over the four elements: rejected by the first rejection,
\* fulfilled once every element is fulfilled.  PromiseAll_Settled is the join
\* that waits for every element and never rejects.
PromiseAll_Settled(agg, req, outcome) ==
    IF agg # "pending" THEN agg
    ELSE IF \A s \in Sections : req[s] # "pending" THEN "fulfilled"
    ELSE "pending"

\* PromiseAll_Any is the join that is fulfilled by the first fulfilled element.
PromiseAll_Any(agg, req, outcome) ==
    IF agg # "pending" THEN agg
    ELSE IF outcome \in FailOutcomes THEN "rejected"
    ELSE "fulfilled"

PromiseAll(agg, req, outcome) ==
    IF agg # "pending" THEN agg
    ELSE IF outcome \in FailOutcomes THEN "rejected"
    ELSE IF \A s \in Sections : req[s] = "ok" THEN "fulfilled"
    ELSE "pending"

\* Lines 60-66: the initial values of the seven state cells.
InitialCells ==
    /\ predictedPrice = Null
    /\ news = <<>>
    /\ reddit = <<>>
    /\ financials = Null
    /\ direction = Null
    /\ confidence = Null
    /\ error = Null

\* Lines 73-96: the four fetch calls are elements of one array literal, so the
\* four requests are issued in one synchronous step.  NewLoad_Waterfall issues
\* the price request alone and leaves the others to follow its completion.
NewLoad_Waterfall(t) == [ticker |-> t,
                         req |-> [s \in Sections |-> IF s = "price" THEN "pending" ELSE "unissued"],
                         agg |-> "pending",
                         reason |-> Null]

NewLoad(t) == [ticker |-> t,
               req |-> [s \in Sections |-> "pending"],
               agg |-> "pending",
               reason |-> Null]

\* Lines 68-96: the effect body for ticker t, appended to the loads ls.
\* EffectBody_NoGuard is the effect without the early return of line 69.
EffectBody_NoGuard(ls, t) == Append(ls, NewLoad(t))

EffectBody(ls, t) == IF t = <<>> THEN ls ELSE Append(ls, NewLoad(t))

\* The page is opened at route r: a fresh instance with the initial cells, whose
\* effect runs once after the first render.  Callbacks of an earlier instance
\* no longer reach the state of this one.
Mount(r) ==
    /\ mounted' = TRUE
    /\ raw' = r
    /\ predictedPrice' = Null
    /\ news' = <<>>
    /\ reddit' = <<>>
    /\ financials' = Null
    /\ direction' = Null
    /\ confidence' = Null
    /\ error' = Null
    /\ loads' = EffectBody(<<>>, TickerOf(r))
    /\ failures' = 0
    /\ UNCHANGED rankVars
    /\ UNCHANGED <<homeVars, routeVars>>

\* The route parameter changes to r while the instance stays mounted: the
\* component renders again and the effect runs again iff its dependency T
\* changed (line 106).  The effect has no cleanup.
\* Navigate_NoDeps is the component whose effect has no dependency list and
\* runs after every render.
Navigate_NoDeps(r) ==
    /\ mounted
    /\ r # raw
    /\ Len(loads) < MaxLoads
    /\ raw' = r
    /\ loads' = EffectBody(loads, TickerOf(r))
    /\ UNCHANGED <<mounted, predictedPrice, news, reddit, financials, direction,
                   confidence, error, failures>>
    /\ UNCHANGED rankVars
    /\ UNCHANGED <<homeVars, routeVars>>

Navigate(r) ==
    /\ mounted
    /\ r # raw
    /\ TickerOf(r) # T => Len(loads) < MaxLoads
    /\ raw' = r
    /\ loads' = IF TickerOf(r) # T THEN EffectBody(loads, TickerOf(r)) ELSE loads
    /\ UNCHANGED <<mounted, predictedPrice, news, reddit, financials, direction,
                   confidence, error, failures>>
    /\ UNCHANGED rankVars
    /\ UNCHANGED <<homeVars, routeVars>>

\* Lines 97-104: the .then callback, with the four bodies of load i for
\* ticker t.  ThenWrites_Swapped stores the news and Reddit lists crosswise.
ThenWrites_Swapped(i, t) ==
    LET priceJson == JsonOf(i, t, "price")
        newsJson == JsonOf(i, t, "news")
        redditJson == JsonOf(i, t, "reddit")
        finJson == JsonOf(i, t, "financials")
    IN  /\ predictedPrice' = OrNull(priceJson, "predicted_price")
        /\ news' = OrEmpty(redditJson, "reddit")
        /\ reddit' = OrEmpty(newsJson, "news")
        /\ financials' = OrNull(finJson, "financials")
        /\ direction' = OrNull(finJson, "direction")
        /\ confidence' = OrNull(finJson, "confidence")
        /\ UNCHANGED error

ThenWrites(i, t) ==
    LET priceJson == JsonOf(i, t, "price")
        newsJson == JsonOf(i, t, "news")
        redditJson == JsonOf(i, t, "reddit")
        finJson == JsonOf(i, t, "financials")
    IN  /\ predictedPrice' = OrNull(priceJson, "predicted_price")
        /\ news' = OrEmpty(newsJson, "news")
        /\ reddit' = OrEmpty(redditJson, "reddit")
        /\ financials' = OrNull(finJson, "financials")
        /\ direction' = OrNull(finJson, "direction")
        /\ confidence' = OrNull(finJson, "confidence")
        /\ UNCHANGED error

\* Line 105: the .catch callback.
CatchWrites(reason) ==
    /\ error' = Some(reason)
    /\ UNCHANGED <<predictedPrice, news, reddit, financials, direction, confidence>>

\* A promise settles once: its callbacks run in the step that takes it out of
\* "pending" and never again.  Settles_Again runs them at every later step too.
Settles_Again(before, after) == after # "pending"

Settles(before, after) == before = "pending" /\ after # "pending"

\* Lines 74-95: the request of section s for ticker t, with the place where it
\* carries the ticker.
RequestOf(t, s) ==
    IF s = "price"
    THEN [method |-> "GET", path |-> "/predict", carries |-> "query stock", ticker |-> t]
    ELSE [method |-> "POST",
          path |-> CASE s = "news" -> "/api/news"
                     [] s = "reddit" -> "/api/reddit"
                     [] s = "financials" -> "/api/financials",
          carries |-> "body ticker", ticker |-> t]

\* Request s of load i completes with the given outcome; when this settles the
\* load's Promise.all, its .then or .catch callback runs in the same step.
Respond(i, s, outcome) ==
    /\ mounted
    /\ i \in DOMAIN loads
    /\ loads[i].req[s] = "pending"
    /\ outcome \in FailOutcomes => failures < MaxFailures
    /\ failures' = IF outcome \in FailOutcomes THEN failures + 1 ELSE failures
    /\ LET req == [loads[i].req EXCEPT ![s] = outcome]
           agg == PromiseAll(loads[i].agg, req, outcome)
           settles == Settles(loads[i].agg, agg)
           reason == IF settles /\ agg = "rejected"
                     THEN Some(Rejection(s, outcome))
                     ELSE loads[i].reason
       IN  /\ loads' = [loads EXCEPT ![i] = [ticker |-> loads[i].ticker, req |-> req,
                                             agg |-> agg, reason |-> reason]]
           /\ IF settles /\ agg = "fulfilled" THEN ThenWrites(i, loads[i].ticker)
              ELSE IF settles /\ agg = "rejected" THEN CatchWrites(Rejection(s, outcome))
              ELSE UNCHANGED <<predictedPrice, news, reddit, financials, direction,
                               confidence, error>>
    /\ UNCHANGED <<mounted, raw>>
    /\ UNCHANGED rankVars
    /\ UNCHANGED <<homeVars, routeVars>>

\* Lines 108-182: what the render function shows.  if (error) replaces the whole
\* dashboard; otherwise each section shows its data or its loading placeholder.
Render ==
    IF error # Null /\ error # Some("")
    THEN [kind |-> "error", shown |-> {}]
    ELSE [kind |-> "dashboard",
          shown |-> {s \in Sections :
                       \/ s = "price" /\ predictedPrice # Null
                       \/ s = "news" /\ Len(news) # 0
                       \/ s = "reddit" /\ Len(reddit) # 0
                       \/ s = "financials" /\ financials # Null}]

RankIdle ==
    /\ query = <<>>
    /\ stockData = <<>>
    /\ suggestions = <<>>
    /\ ranked = "none"

DashInit ==
    /\ mounted = FALSE
    /\ raw = <<>>
    /\ InitialCells
    /\ loads = <<>>
    /\ failures = 0

\* No search page is open.
HomeIdle ==
    /\ variant = "network"
    /\ debouncedQuery = <<>>
    /\ inflight = 0
    /\ latest = Null
    /\ reply = Null
    /\ pushed = <<>>
    /\ event = "none"

\* The endpoint has handled no request.
RouteIdle ==
    /\ apiKey = Null
    /\ serverPc = "idle"
    /\ exchange = Null
    /\ upstreamRequests = <<>>
    /\ upstream = Null
    /\ serverLog = <<>>
    /\ response = Null

Init == DashInit /\ RankIdle /\ HomeIdle /\ RouteIdle

Next ==
    \/ \E r \in Routes : Mount(r)
    \/ \E r \in Routes : Navigate(r)
    \/ \E i \in 1..MaxLoads, s \in Sections, o \in Outcomes : Respond(i, s, o)

Spec == Init /\ [][Next]_vars

\* The runs in which the user navigates only while no request is outstanding.
Settled == \A i \in DOMAIN loads : \A s \in Sections : loads[i].req[s] # "pending"

NextSettled ==
    \/ \E r \in Routes : Settled /\ Mount(r)
    \/ \E r \in Routes : Settled /\ Navigate(r)
    \/ \E i \in 1..MaxLoads, s \in Sections, o \in Outcomes : Respond(i, s, o)

SpecSettled == Init /\ [][NextSettled]_vars

(***************************************************************************)
(* Home: the ranking function getSuggestions.                              *)
(***************************************************************************)
\* String.prototype.trim.
RECURSIVE TrimStart(_)
TrimStart(s) ==
    IF s # <<>> /\ Head(s) \in Whitespace THEN TrimStart(Tail(s)) ELSE s

RECURSIVE TrimEnd(_)
TrimEnd(s) ==
    IF s # <<>> /\ s[Len(s)] \in Whitespace
    THEN TrimEnd(SubSeq(s, 1, Len(s) - 1)) ELSE s

trim(s) == TrimEnd(TrimStart(s))

\* String.prototype.startsWith.
startsWith(s, prefix) ==
    Len(prefix) <= Len(s) /\ SubSeq(s, 1, Len(prefix)) = prefix

\* String.prototype.includes.
includes(s, part) ==
    \E k \in 0..(Len(s) - Len(part)) : SubSeq(s, k + 1, k + Len(part)) = part

\* String.prototype.localeCompare under the default collation: strings are
\* compared by their letters first, case left aside; strings with the same
\* letters are ordered by the first difference of case, lower case first.
PrimaryWeight(c) ==
    CASE c = " " -> 0
      [] c \in {"a", "A"} -> 1
      [] c \in {"d", "D"} -> 4
      [] c \in {"l", "L"} -> 12
      [] c \in {"m", "M"} -> 13
      [] c \in {"p", "P"} -> 16
      [] OTHER -> 27

CaseWeight(c) == IF c \in {"A", "D", "L", "M", "P"} THEN 1 ELSE 0

\* Two sequences of weights, compared position by position; a proper prefix
\* comes first.
RECURSIVE CompareWeights(_, _)
CompareWeights(a, b) ==
    IF a = <<>> /\ b = <<>> THEN 0
    ELSE IF a = <<>> THEN -1
    ELSE IF b = <<>> THEN 1
    ELSE IF Head(a) < Head(b) THEN -1
    ELSE IF Head(a) > Head(b) THEN 1
    ELSE CompareWeights(Tail(a), Tail(b))

localeCompare(a, b) ==
    LET primary == CompareWeights([k \in DOMAIN a |-> PrimaryWeight(a[k])],
                                  [k \in DOMAIN b |-> PrimaryWeight(b[k])])
    IN  IF primary # 0 THEN primary
        ELSE CompareWeights([k \in DOMAIN a |-> CaseWeight(a[k])],
                            [k \in DOMAIN b |-> CaseWeight(b[k])])

Stock(symbol, name) == [symbol |-> symbol, name |-> name]

\* part_003 lines 14-36, page.tsx lines 251-259: the entries of POPULAR_SYMBOLS
\* spelled with the letters of the model, in the order of the source.
POPULAR_SYMBOLS == << <<"A", "A", "P", "L">>, <<"A", "M", "D">>, <<"P", "L">> >>

\* Array.prototype.includes on POPULAR_SYMBOLS.
IsPopular(symbol) == \E k \in DOMAIN POPULAR_SYMBOLS : POPULAR_SYMBOLS[k] = symbol

\* part_003 lines 93-99, page.tsx lines 274-280: the comparator of the sort.
\* compareStocks_SymbolOnly leaves the popularity out.
compareStocks_SymbolOnly(a, b) == localeCompare(a.symbol, b.symbol)

compareStocks(a, b) ==
    LET aIsPopular == IsPopular(a.symbol)
        bIsPopular == IsPopular(b.symbol)
    IN  IF aIsPopular /\ ~bIsPopular THEN -1
        ELSE IF ~aIsPopular /\ bIsPopular THEN 1
        ELSE localeCompare(a.symbol, b.symbol)

\* Array.prototype.sort with compareStocks: a stable sort, here by insertion.
RECURSIVE InsertStock(_, _)
InsertStock(x, sorted) ==
    IF sorted = <<>> THEN <<x>>
    ELSE IF compareStocks(x, Head(sorted)) < 0 THEN <<x>> \o sorted
    ELSE <<Head(sorted)>> \o InsertStock(x, Tail(sorted))

RECURSIVE sortStocks(_)
sortStocks(stocks) ==
    IF stocks = <<>> THEN <<>>
    ELSE InsertStock(stocks[Len(stocks)], sortStocks(SubSeq(stocks, 1, Len(stocks) - 1)))

\* part_003 lines 76-89: the two groups of the reduce.
symbolMatches(data, inputValue) ==
    SelectSeq(data, LAMBDA stock : startsWith(toLowerCase(stock.symbol), inputValue))

\* nameMatches_Includes matches the name anywhere instead of at its start.
nameMatches_Includes(data, inputValue) ==
    SelectSeq(data, LAMBDA stock :
        /\ ~startsWith(toLowerCase(stock.symbol), inputValue)
        /\ includes(toLowerCase(stock.name), inputValue))

nameMatches(data, inputValue) ==
    SelectSeq(data, LAMBDA stock :
        /\ ~startsWith(toLowerCase(stock.symbol), inputValue)
        /\ startsWith(toLowerCase(stock.name), inputValue))

\* part_003 line 105: the upper bound of the network-backed variant.
SuggestionLimit == 10

\* .slice(0, 10); slice_SkipFirst is .slice(1, 11).
slice_SkipFirst(list) ==
    SubSeq(list, 2, IF Len(list) < SuggestionLimit + 1 THEN Len(list) ELSE SuggestionLimit + 1)

\* slice_OneMore is .slice(0, 11).
slice_OneMore(list) ==
    SubSeq(list, 1, IF Len(list) < SuggestionLimit + 1 THEN Len(list) ELSE SuggestionLimit + 1)

slice(list) ==
    SubSeq(list, 1, IF Len(list) < SuggestionLimit THEN Len(list) ELSE SuggestionLimit)

\* part_003 lines 102-105: symbol matches first, name matches second.
\* combine_NamesFirst puts the groups the other way round.
combine_NamesFirst(symbolSorted, nameSorted) == slice(nameSorted \o symbolSorted)

combine(symbolSorted, nameSorted) == slice(symbolSorted \o nameSorted)

\* part_003 lines 71-106: getSuggestions of the network-backed search page.
\* getSuggestions_NoEmptyGuard is the function without line 73.
getSuggestions_NoEmptyGuard(value, data) ==
    LET inputValue == toLowerCase(trim(value))
    IN  combine(sortStocks(symbolMatches(data, inputValue)),
                sortStocks(nameMatches(data, inputValue)))

getSuggestions(value, data) ==
    LET inputValue == toLowerCase(trim(value))
    IN  IF Len(inputValue) = 0 THEN <<>>
        ELSE combine(sortStocks(symbolMatches(data, inputValue)),
                     sortStocks(nameMatches(data, inputValue)))

\* page.tsx lines 267-281: getSuggestions of the static search page, which
\* ranks POPULAR_SYMBOLS itself and has no upper bound.
getSuggestionsStatic(value) ==
    LET inputValue == toLowerCase(trim(value))
        filtered == SelectSeq(POPULAR_SYMBOLS,
                              LAMBDA symbol : startsWith(toLowerCase(symbol), inputValue))
        mapped == [k \in DOMAIN filtered |-> Stock(filtered[k], filtered[k])]
    IN  IF Len(inputValue) = 0 THEN <<>> ELSE sortStocks(mapped)

\* The candidate list of the static variant, as Stock records.
StaticCandidates == [k \in DOMAIN POPULAR_SYMBOLS |-> Stock(POPULAR_SYMBOLS[k], POPULAR_SYMBOLS[k])]

(***************************************************************************)
(* The inputs the ranking function is applied to.                          *)
(***************************************************************************)
QueryChars == {"a", "A", "l", " "}

RECURSIVE SeqsUpTo(_, _)
SeqsUpTo(S, n) ==
    IF n = 0 THEN {<<>>}
    ELSE SeqsUpTo(S, n - 1) \cup
         {Append(q, c) : q \in {q \in SeqsUpTo(S, n - 1) : Len(q) = n - 1}, c \in S}

Queries == SeqsUpTo(QueryChars, MaxQueryLen)

\* A symbol list as the symbol-lookup backend may return it: fourteen stocks
\* in no particular order, eleven whose symbol starts with "a", three that
\* start with "a" by their name only, three of them popular.
Universe ==
    << Stock(<<"A", "P">>, <<"A", "m", "p">>),
       Stock(<<"L", "A", "D">>, <<"A", "d">>),
       Stock(<<"A", "L", "L">>, <<"A", "l", "l">>),
       Stock(<<"A", "A", "P", "L">>, <<"A", "p", "p">>),
       Stock(<<"A", "M">>, <<"M", "a">>),
       Stock(<<"P", "L">>, <<"A", "l">>),
       Stock(<<"A", "A">>, <<"A", "l", "c">>),
       Stock(<<"A", "M", "D">>, <<"A", "d", "v">>),
       Stock(<<"A", "L">>, <<"A", "i", "r">>),
       Stock(<<"A", "A", "L">>, <<"A", "m">>),
       Stock(<<"A", "D">>, <<"D", "a">>),
       Stock(<<"A", "A", "P">>, <<"A", "d", "v">>),
       Stock(<<"A", "D", "M">>, <<"A", "r", "c">>),
       Stock(<<"M", "A">>, <<"A", "m">>) >>

Reverse(s) == [k \in 1..Len(s) |-> s[Len(s) + 1 - k]]

\* Every contiguous part of the list, in its order and in the reverse order.
LongLists ==
    {SubSeq(Universe, i, j) : i \in 1..Len(Universe), j \in 1..Len(Universe)} \cup
    {SubSeq(Reverse(Universe), i, j) : i \in 1..Len(Universe), j \in 1..Len(Universe)}

\* Short lists, with repetitions and in every order; two entries share a symbol.
Pool ==
    { Stock(<<"A", "A", "P", "L">>, <<"A", "p", "p">>),
      Stock(<<"A", "A">>, <<"A", "l", "c">>),
      Stock(<<"A", "A">>, <<"P", "a">>),
      Stock(<<"P", "L">>, <<"A", "l">>),
      Stock(<<"M", "A">>, <<"A", "m">>) }

ShortLists == SeqsUpTo(Pool, MaxCands)

CandidateLists == LongLists \cup ShortLists

RankInit ==
    /\ query \in Queries
    /\ stockData \in CandidateLists
    /\ suggestions = <<>>
    /\ ranked = "none"

\* getSuggestions(query) of the network-backed page, over stockData.
RankNetwork ==
    /\ ranked = "none"
    /\ suggestions' = getSuggestions(query, stockData)
    /\ ranked' = "network"
    /\ UNCHANGED <<query, stockData>>
    /\ UNCHANGED dashVars
    /\ UNCHANGED <<homeVars, routeVars>>

\* getSuggestions(query) of the static page.
RankStatic ==
    /\ ranked = "none"
    /\ suggestions' = getSuggestionsStatic(query)
    /\ ranked' = "static"
    /\ UNCHANGED <<query, stockData>>
    /\ UNCHANGED dashVars
    /\ UNCHANGED <<homeVars, routeVars>>

NextRank == RankNetwork \/ RankStatic

InitRank == DashInit /\ RankInit /\ HomeIdle /\ RouteIdle

SpecRank == InitRank /\ [][NextRank]_vars

(***************************************************************************)
(* GET /api/finnhub-stocks: the symbol-lookup endpoint (route.ts).         *)
(***************************************************************************)
\* The values of FINNHUB_API_KEY: unset, set to the empty string, or a key.
\* The keys of the model are alphanumeric, so encodeURIComponent (line 43)
\* leaves them as they are.
Keys == {"k1", "k2"}
Environments == {Null, Some("")} \cup {Some(k) : k \in Keys}

\* Line 28: !apiKey.
KeyMissing(key) == key = Null \/ key = Some("")

\* Line 38: url.searchParams.get("exchange"), null when the parameter is absent.
ExchangeParams == {Null, Some("US"), Some("L")}
ExchangeOf(param) == IF param = Null THEN "US" ELSE CHOOSE x \in param : TRUE

\* JSON values of the provider's entries, with their type.
JString(v) == [t |-> "string", v |-> v]
JNumber(v) == [t |-> "number", v |-> v]

\* Lines 13-23: isFinnhubSymbolRaw, for an entry that is an object.
isFinnhubSymbolRaw(item) ==
    /\ "symbol" \in DOMAIN item
    /\ item.symbol.t = "string"
    /\ "description" \in DOMAIN item => item.description.t = "string"

\* Lines 71-77: the entry as { symbol, name }.
ToStock(item) ==
    Stock(item.symbol.v,
          IF "description" \in DOMAIN item /\ trim(item.description.v) # <<>>
          THEN item.description.v ELSE item.symbol.v)

\* Lines 69-77: raw.filter(isFinnhubSymbolRaw).map(...).
ToStocks(rawItems) ==
    LET kept == SelectSeq(rawItems, isFinnhubSymbolRaw)
    IN  [k \in DOMAIN kept |-> ToStock(kept[k])]

\* Bodies the provider may send: a list of entries, another JSON value, or
\* text that is not JSON.
ProviderListA ==
    << [symbol |-> JString(<<"A", "A">>), description |-> JString(<<"A", "l", "c">>)],
       [description |-> JString(<<"A", "d">>)],
       [symbol |-> JString(<<"P", "L">>), description |-> JString(<<" ">>)],
       [symbol |-> JNumber(7)],
       [symbol |-> JString(<<"A", "L">>)] >>

ProviderListB ==
    << [symbol |-> JString(<<"a", "l">>), description |-> JString(<<"A", "l">>)],
       [symbol |-> JString(<<"A", "A">>), description |-> JNumber(7)] >>

ProviderBodies ==
    { [shape |-> "list", items |-> ProviderListA],
      [shape |-> "list", items |-> ProviderListB],
      [shape |-> "list", items |-> <<>>],
      [shape |-> "object", items |-> <<>>],
      [shape |-> "text", items |-> <<>>] }

\* What the fetch of line 40 ends with: a response, or a rejection.
ProviderStatuses == {200, 304, 401, 429, 500}
ProviderReplies ==
    {[kind |-> "transport", status |-> 0, body |-> [shape |-> "text", items |-> <<>>]]} \cup
    {[kind |-> "response", status |-> st, body |-> b] :
        st \in ProviderStatuses, b \in ProviderBodies}

\* Response.ok.
IsOk(status) == status >= 200 /\ status <= 299

\* The statuses of a response that has no body: NextResponse.json builds its
\* response with Response.json, which throws a TypeError for them.
NullBodyStatus(status) == status \in {101, 103, 204, 205, 304}

\* NextResponse.json(body, { status }).
ErrorResponse(message, status) ==
    [status |-> status, body |-> [shape |-> "object", error |-> message, items |-> <<>>]]
ListResponse(stocks) ==
    [status |-> 200, body |-> [shape |-> "list", error |-> "", items |-> stocks]]

\* Lines 26-44: the handler up to the await of the provider, for the key in
\* the environment and the exchange parameter of the request.
\* Received_NoKeyCheck is the handler without lines 28-34.
Received_NoKeyCheck(key, param) ==
    [pc |-> "awaiting",
     exchange |-> Some(ExchangeOf(param)),
     sent |-> <<[exchange |-> ExchangeOf(param), token |-> key]>>,
     log |-> <<>>,
     response |-> Null]

Received(key, param) ==
    IF KeyMissing(key)
    THEN [pc |-> "idle",
          exchange |-> Null,
          sent |-> <<>>,
          log |-> <<[line |-> "Missing FINNHUB_API_KEY", status |-> 0]>>,
          response |-> Some(ErrorResponse("Finnhub API key is missing", 500))]
    ELSE [pc |-> "awaiting",
          exchange |-> Some(ExchangeOf(param)),
          sent |-> <<[exchange |-> ExchangeOf(param), token |-> key]>>,
          log |-> <<>>,
          response |-> Null]

\* Lines 46-91: the handler from the provider's reply on.
\* Answered_NoShapeCheck is the handler without lines 61-67;
\* Answered_EchoKey puts the key of the request into the error messages.
Answered_NoShapeCheck(key, u) ==
    IF u.kind = "transport" \/ (IsOk(u.status) /\ u.body.shape = "text")
    THEN [log |-> <<[line |-> "Error fetching Finnhub data:", status |-> 0]>>,
          response |-> ErrorResponse("Failed to fetch stock data", 500)]
    ELSE IF ~IsOk(u.status) /\ NullBodyStatus(u.status)
    THEN \* line 53 throws: the catch of lines 85-91
         [log |-> <<[line |-> "Finnhub responded with non-OK status:", status |-> u.status],
                    [line |-> "Error fetching Finnhub data:", status |-> 0]>>,
          response |-> ErrorResponse("Failed to fetch stock data", 500)]
    ELSE IF ~IsOk(u.status)
    THEN [log |-> <<[line |-> "Finnhub responded with non-OK status:", status |-> u.status]>>,
          response |-> ErrorResponse("Failed to fetch data from Finnhub", u.status)]
    ELSE [log |-> <<>>, response |-> ListResponse(ToStocks(u.body.items))]

Answered_EchoKey(key, u) ==
    IF u.kind = "transport" \/ (IsOk(u.status) /\ u.body.shape = "text")
    THEN [log |-> <<[line |-> "Error fetching Finnhub data:", status |-> 0]>>,
          response |-> ErrorResponse(CHOOSE k \in key : TRUE, 500)]
    ELSE IF ~IsOk(u.status) /\ NullBodyStatus(u.status)
    THEN [log |-> <<[line |-> "Finnhub responded with non-OK status:", status |-> u.status],
                    [line |-> "Error fetching Finnhub data:", status |-> 0]>>,
          response |-> ErrorResponse(CHOOSE k \in key : TRUE, 500)]
    ELSE IF ~IsOk(u.status)
    THEN [log |-> <<[line |-> "Finnhub responded with non-OK status:", status |-> u.status]>>,
          response |-> ErrorResponse(CHOOSE k \in key : TRUE, u.status)]
    ELSE IF u.body.shape # "list"
    THEN [log |-> <<[line |-> "Unexpected Finnhub response shape:", status |-> 0]>>,
          response |-> ErrorResponse(CHOOSE k \in key : TRUE, 502)]
    ELSE [log |-> <<>>, response |-> ListResponse(ToStocks(u.body.items))]

Answered(key, u) ==
    IF u.kind = "transport" \/ (IsOk(u.status) /\ u.body.shape = "text")
    THEN \* fetch or resp.json() throws: the catch of lines 85-91
         [log |-> <<[line |-> "Error fetching Finnhub data:", status |-> 0]>>,
          response |-> ErrorResponse("Failed to fetch stock data", 500)]
    ELSE IF ~IsOk(u.status) /\ NullBodyStatus(u.status)
    THEN \* line 53 throws: the catch of lines 85-91
         [log |-> <<[line |-> "Finnhub responded with non-OK status:", status |-> u.status],
                    [line |-> "Error fetching Finnhub data:", status |-> 0]>>,
          response |-> ErrorResponse("Failed to fetch stock data", 500)]
    ELSE IF ~IsOk(u.status)
    THEN [log |-> <<[line |-> "Finnhub responded with non-OK status:", status |-> u.status]>>,
          response |-> ErrorResponse("Failed to fetch data from Finnhub", u.status)]
    ELSE IF u.body.shape # "list"
    THEN [log |-> <<[line |-> "Unexpected Finnhub response shape:", status |-> 0]>>,
          response |-> ErrorResponse("Unexpected response format from Finnhub", 502)]
    ELSE [log |-> <<>>, response |-> ListResponse(ToStocks(u.body.items))]

\* A request arrives and the handler runs up to its first await.
GETReceive(param) ==
    /\ serverPc = "idle"
    /\ Len(upstreamRequests) < MaxRequests
    /\ Len(serverLog) < MaxRequests
    /\ LET r == Received(apiKey, param)
       IN  /\ serverPc' = r.pc
           /\ exchange' = r.exchange
           /\ upstreamRequests' = upstreamRequests \o r.sent
           /\ serverLog' = serverLog \o r.log
           /\ response' = IF r.response = Null THEN response ELSE r.response
           /\ upstream' = IF r.response = Null THEN upstream ELSE Null
    /\ UNCHANGED apiKey
    /\ UNCHANGED <<dashVars, rankVars, homeVars>>

\* The provider's reply arrives and the handler runs to its end.
GETAnswer(u) ==
    /\ serverPc = "awaiting"
    /\ LET a == Answered(apiKey, u)
       IN  /\ serverLog' = serverLog \o a.log
           /\ response' = Some(a.response)
    /\ upstream' = Some(u)
    /\ serverPc' = "idle"
    /\ exchange' = Null
    /\ UNCHANGED <<apiKey, upstreamRequests>>
    /\ UNCHANGED <<dashVars, rankVars, homeVars>>

RouteInit ==
    /\ apiKey \in Environments
    /\ serverPc = "idle"
    /\ exchange = Null
    /\ upstreamRequests = <<>>
    /\ upstream = Null
    /\ serverLog = <<>>
    /\ response = Null

InitLookup == DashInit /\ RankIdle /\ HomeIdle /\ RouteInit

NextLookup ==
    \/ \E param \in ExchangeParams : GETReceive(param)
    \/ \E u \in ProviderReplies : GETAnswer(u)

SpecLookup == InitLookup /\ [][NextLookup]_vars

(***************************************************************************)
(* Home: the search page, network-backed (part_003) and static (page.tsx). *)
(***************************************************************************)
Variants == {"network", "static"}

\* The values typed into the search box.
TypedQueries ==
    { <<>>, <<"a">>, <<"a", "l">>, <<"A", "l">>, <<"p", "l">>, <<"p", "l", " ">>,
      <<"a", "m">> }

\* What the fetch of part_003 line 49 ends with: a rejection, a response whose
\* body is not JSON (an error page of a proxy), or a response of the endpoint.
EndpointResponses ==
    {Answered(Some(k), u).response : k \in Keys, u \in ProviderReplies} \cup
    UNION {Received(e, x).response : e \in {Null, Some("")}, x \in ExchangeParams}

ClientReplies ==
    {[kind |-> "transport", status |-> 0,
      body |-> [shape |-> "text", error |-> "", items |-> <<>>]],
     [kind |-> "response", status |-> 502,
      body |-> [shape |-> "text", error |-> "", items |-> <<>>]]} \cup
    {[kind |-> "response", status |-> r.status, body |-> r.body] : r \in EndpointResponses}

\* part_003 lines 47-61: the candidate list after a lookup has ended with
\* reply r; the list held before plays no part.  fetchStockData_CatchOnlyLogs
\* is the function whose catch block does not reset the list.
fetchStockData_CatchOnlyLogs(before, r) ==
    IF r.kind = "transport" \/ r.body.shape = "text" THEN before
    ELSE IF r.body.shape = "list" THEN r.body.items
    ELSE <<>>

fetchStockData(before, r) ==
    IF r.kind = "transport" \/ r.body.shape = "text" THEN <<>>
    ELSE IF r.body.shape = "list" THEN r.body.items
    ELSE <<>>

\* getSuggestions of the page that is open.
SuggestionsOf(v, value, data) ==
    IF v = "network" THEN getSuggestions(value, data) ELSE getSuggestionsStatic(value)

\* part_003 lines 140-142: the first stock whose symbol equals the query, case
\* left aside; the result is a list with that stock, or the empty list.
\* matchedStock_Prefix accepts a symbol that starts with the query.
matchedStock_Prefix(data, q) ==
    LET found == SelectSeq(data, LAMBDA stock : startsWith(toUpperCase(stock.symbol), toUpperCase(q)))
    IN  IF found = <<>> THEN <<>> ELSE <<Head(found)>>

matchedStock(data, q) ==
    LET found == SelectSeq(data, LAMBDA stock : toUpperCase(stock.symbol) = toUpperCase(q))
    IN  IF found = <<>> THEN <<>> ELSE <<Head(found)>>

\* The template literal `/${symbol}` of router.push.
PathOf(symbol) == <<"/">> \o symbol

\* part_003 lines 138-147, page.tsx lines 308-312: what Enter pushes, as a list
\* with at most one path.
onKeyPress(v, q, data) ==
    IF q = <<>> THEN <<>>
    ELSE IF v = "network"
    THEN LET m == matchedStock(data, q)
         IN  IF m = <<>> THEN <<>> ELSE <<PathOf(m[1].symbol)>>
    ELSE IF IsPopular(toUpperCase(q)) THEN <<PathOf(toUpperCase(q))>> ELSE <<>>

\* The search page is opened: the state of lines 39-42, resp. 262-263.
HomeInit ==
    /\ variant \in Variants
    /\ query = <<>>
    /\ stockData = <<>>
    /\ suggestions = <<>>
    /\ ranked = "none"
    /\ debouncedQuery = <<>>
    /\ inflight = 0
    /\ latest = Null
    /\ reply = Null
    /\ pushed = <<>>
    /\ event = "none"

\* The user edits the box: onChange, then the suggestions are computed again
\* (onSuggestionsFetchRequested; in part_003 also the effect of lines 109-111).
\* OnChange_FetchEffectOnQuery is the page whose fetch effect depends on the
\* query itself: every keystroke runs it.
OnChange_FetchEffectOnQuery(value) ==
    /\ value # query
    /\ (variant = "network" /\ Len(value) > 1) => inflight < MaxInflight
    /\ query' = value
    /\ IF variant = "network" /\ Len(value) > 1
       THEN /\ inflight' = inflight + 1
            /\ latest' = Some([query |-> value, pending |-> TRUE, data |-> <<>>])
       ELSE UNCHANGED <<inflight, latest>>
    /\ suggestions' = SuggestionsOf(variant, value, stockData)
    /\ ranked' = variant
    /\ event' = "change"
    /\ UNCHANGED <<stockData, variant, debouncedQuery, reply, pushed>>
    /\ UNCHANGED <<dashVars, routeVars>>

OnChange(value) ==
    /\ value # query
    /\ query' = value
    /\ suggestions' = SuggestionsOf(variant, value, stockData)
    /\ ranked' = variant
    /\ event' = "change"
    /\ UNCHANGED <<stockData, variant, debouncedQuery, inflight, latest, reply, pushed>>
    /\ UNCHANGED <<dashVars, routeVars>>

\* part_003 lines 42, 46-68: the debounced value catches up with the query and
\* the fetch effect runs: it starts a lookup for a value longer than one
\* character and clears the candidates otherwise.
DebounceSettles ==
    /\ variant = "network"
    /\ debouncedQuery # query
    /\ Len(query) > 1 => inflight < MaxInflight
    /\ debouncedQuery' = query
    /\ IF Len(query) > 1
       THEN /\ inflight' = inflight + 1
            /\ latest' = Some([query |-> query, pending |-> TRUE, data |-> <<>>])
            /\ UNCHANGED <<stockData, suggestions, ranked>>
       ELSE /\ stockData' = <<>>
            /\ suggestions' = getSuggestions(query, <<>>)
            /\ ranked' = variant
            /\ UNCHANGED <<inflight, latest>>
    /\ event' = "debounce"
    /\ UNCHANGED <<query, variant, reply, pushed>>
    /\ UNCHANGED <<dashVars, routeVars>>

\* The lookups that are outstanding and older than the one fetched last.
OlderInflight ==
    IF \E l \in latest : l.pending THEN inflight - 1 ELSE inflight

\* part_003 lines 49-60, 109-111: an outstanding lookup ends with reply r;
\* it is the lookup fetched last, or an older one.  Nothing in lines 47-61
\* tells the two apart.
LookupAnswered(r, which) ==
    /\ inflight > 0
    /\ IF which = "latest"
       THEN /\ \E l \in latest : l.pending
            /\ latest' = {[l EXCEPT !.pending = FALSE,
                                    !.data = fetchStockData(stockData, r)] : l \in latest}
       ELSE /\ OlderInflight > 0
            /\ UNCHANGED latest
    /\ inflight' = inflight - 1
    /\ reply' = Some(r)
    /\ stockData' = fetchStockData(stockData, r)
    /\ suggestions' = getSuggestions(query, fetchStockData(stockData, r))
    /\ ranked' = variant
    /\ event' = "response"
    /\ UNCHANGED <<query, variant, debouncedQuery, pushed>>
    /\ UNCHANGED <<dashVars, routeVars>>

\* part_003 lines 129-135, page.tsx lines 299-305: suggestion k is selected.
OnSuggestionSelected(k) ==
    /\ k \in DOMAIN suggestions
    /\ Len(pushed) < MaxPushes
    /\ query' = suggestions[k].symbol
    /\ pushed' = Append(pushed, PathOf(suggestions[k].symbol))
    /\ IF variant = "network" /\ suggestions[k].symbol # query
       THEN suggestions' = getSuggestions(suggestions[k].symbol, stockData)
       ELSE UNCHANGED suggestions
    /\ event' = "select"
    /\ UNCHANGED <<stockData, ranked, variant, debouncedQuery, inflight, latest, reply>>
    /\ UNCHANGED <<dashVars, routeVars>>

\* part_003 lines 138-147, page.tsx lines 308-312: Enter is pressed.
OnKeyPressEnter ==
    /\ Len(pushed) + Len(onKeyPress(variant, query, stockData)) <= MaxPushes
    /\ pushed' = pushed \o onKeyPress(variant, query, stockData)
    /\ event' = "enter"
    /\ UNCHANGED <<query, stockData, suggestions, ranked, variant, debouncedQuery,
                   inflight, latest, reply>>
    /\ UNCHANGED <<dashVars, routeVars>>

InitHome == DashInit /\ HomeInit /\ RouteIdle

NextHome ==
    \/ \E value \in TypedQueries : OnChange(value)
    \/ DebounceSettles
    \/ \E r \in ClientReplies, which \in {"latest", "older"} : LookupAnswered(r, which)
    \/ \E k \in 1..SuggestionLimit : OnSuggestionSelected(k)
    \/ OnKeyPressEnter

SpecHome == InitHome /\ [][NextHome]_vars

(***************************************************************************)
(* Properties of StockPage.                                                *)
(***************************************************************************)
\* The six cells that make up the DashboardResult.
Cells == <<predictedPrice, news, reddit, financials, direction, confidence>>

\* This step is a response to a request of load i.
RespondsTo(i) ==
    /\ i \in DOMAIN loads
    /\ i \in DOMAIN loads'
    /\ \E s \in Sections : loads[i].req[s] = "pending" /\ loads'[i].req[s] # "pending"

Completed(l) == \A s \in Sections : l.req[s] # "pending"
FailedSections(l) == {s \in Sections : l.req[s] \in FailOutcomes}

\* C1: a response to a load whose ticker is not the active ticker (the load
\* was superseded by a navigation while it was pending) never writes a
\* section of the view, in whatever order the responses of the loads arrive.
C1_StaleLoadNeverWrites ==
    [][\A i \in 1..MaxLoads :
          (RespondsTo(i) /\ T # <<>> /\ loads[i].ticker # T) => Cells' = Cells]_vars

\* C2: a load one of whose requests has failed never writes a section, whether
\* its other responses come before or after the failure; its first failure
\* sets the error once, later responses of the load leave the error alone;
\* and whenever the error is set the render shows no dashboard section.
C2_FailedLoadAllOrNothing ==
    [][/\ \A i \in 1..MaxLoads :
            (RespondsTo(i) /\ FailedSections(loads'[i]) # {}) =>
                /\ Cells' = Cells
                /\ loads'[i].agg = "rejected"
                /\ loads[i].agg = "pending" =>
                      (error' = loads'[i].reason /\ error' # Null)
                /\ loads[i].agg = "rejected" =>
                      (error' = error /\ loads'[i].reason = loads[i].reason)
       /\ error' # Null => (Render.kind = "error" /\ Render.shown = {})']_vars

\* C2 witness: a load with one failed request and three successful ones, all
\* completed, whose error is reported and replaces the dashboard.
C2_Witness ==
    \E i \in DOMAIN loads :
        /\ Completed(loads[i])
        /\ Cardinality(FailedSections(loads[i])) = 1
        /\ loads[i].agg = "rejected"
        /\ error = loads[i].reason
        /\ Render.kind = "error"

\* C3: when all four requests of a load have completed and exactly one of
\* them failed, by an error status or by a transport error, the error the
\* load reports is the named failure of that section.
C3_ErrorNamesFailedSection ==
    \A i \in DOMAIN loads :
        \A s \in Sections :
            (Completed(loads[i]) /\ FailedSections(loads[i]) = {s}) =>
                loads[i].reason = Some(NamedFailure(s))

\* Every consumed field is present in the four bodies of load i for ticker t.
FullBodies(i, t) ==
    /\ "predicted_price" \in DOMAIN JsonOf(i, t, "price")
    /\ "news" \in DOMAIN JsonOf(i, t, "news")
    /\ "reddit" \in DOMAIN JsonOf(i, t, "reddit")
    /\ {"financials", "direction", "confidence"} \subseteq DOMAIN JsonOf(i, t, "financials")

\* The DashboardResult the four bodies of load i for ticker t stand for.
PayloadCells(i, t) ==
    << Some(JsonOf(i, t, "price").predicted_price),
       JsonOf(i, t, "news").news,
       JsonOf(i, t, "reddit").reddit,
       Some(JsonOf(i, t, "financials").financials),
       Some(JsonOf(i, t, "financials").direction),
       Some(JsonOf(i, t, "financials").confidence) >>

\* C4: when the last of four successful responses of a load arrives, in any
\* order, the load reports no error and the six cells are exactly the fields
\* of the four bodies.
C4_AllSucceedPopulates ==
    [][\A i \in 1..MaxLoads :
          (/\ RespondsTo(i)
           /\ \A s \in Sections : loads'[i].req[s] = "ok"
           /\ FullBodies(i, loads[i].ticker)) =>
                /\ loads'[i].agg = "fulfilled"
                /\ loads'[i].reason = Null
                /\ error' = error
                /\ Cells' = PayloadCells(i, loads[i].ticker)]_vars

\* C4 witness: a load with complete bodies has been fulfilled, no error is
\* reported and the cells hold its bodies.
C4_Witness ==
    \E i \in DOMAIN loads :
        /\ loads[i].agg = "fulfilled"
        /\ FullBodies(i, loads[i].ticker)
        /\ loads[i].ticker = T
        /\ error = Null
        /\ Cells = PayloadCells(i, loads[i].ticker)
        /\ Render.shown = Sections

\* C5: the user navigates to another ticker after the load of the first one
\* has reported an error; once the four requests of the new load have
\* succeeded, the dashboard is shown and no error is reported any more.
C5_RenavigationRecovers ==
    (/\ Len(loads) >= 2
     /\ \E j \in 1..(Len(loads) - 1) : loads[j].agg = "rejected"
     /\ loads[Len(loads)].ticker = T
     /\ loads[Len(loads)].agg = "fulfilled") =>
        (error = Null /\ Render.kind = "dashboard")

(***************************************************************************)
(* Properties of getSuggestions (rank).                                    *)
(***************************************************************************)
\* The query of the specification: trim(lower(q)).
NormalizedQuery == trim(toLowerCase(query))

\* The query is empty after trimming: it has no character but whitespace.
BlankQuery == \A k \in DOMAIN query : query[k] \in Whitespace

Range(f) == {f[k] : k \in DOMAIN f}

\* The candidate list C the ranking was applied to.
Candidates == IF ranked = "static" THEN StaticCandidates ELSE stockData

PopularSet == Range(POPULAR_SYMBOLS)

SymbolMatch(c) == startsWith(toLowerCase(c.symbol), NormalizedQuery)
NameMatch(c) == startsWith(toLowerCase(c.name), NormalizedQuery)

\* The match bucket of a candidate: 1 for a symbol match, 2 for a match by
\* the name only.
Bucket(c) == IF SymbolMatch(c) THEN 1 ELSE 2

\* The code unit of a character, and the lexicographic order of symbol codes.
CodeUnit(c) ==
    CASE c = " " -> 32
      [] c = "A" -> 65 [] c = "D" -> 68 [] c = "L" -> 76 [] c = "M" -> 77 [] c = "P" -> 80
      [] c = "a" -> 97 [] c = "d" -> 100 [] c = "l" -> 108 [] c = "m" -> 109 [] c = "p" -> 112
      [] OTHER -> 122

CodeUnits(s) == [k \in DOMAIN s |-> CodeUnit(s[k])]
LexLess(a, b) == CompareWeights(CodeUnits(a), CodeUnits(b)) < 0
LexLeq(a, b) == CompareWeights(CodeUnits(a), CodeUnits(b)) <= 0

\* x ranks above y: by bucket, then popular first, then by symbol code.
RanksAbove(x, y) ==
    \/ Bucket(x) < Bucket(y)
    \/ /\ Bucket(x) = Bucket(y)
       /\ \/ x.symbol \in PopularSet /\ y.symbol \notin PopularSet
          \/ /\ (x.symbol \in PopularSet) = (y.symbol \in PopularSet)
             /\ LexLess(x.symbol, y.symbol)

\* C6: for a query that is empty after trimming, whitespace-only queries
\* included, both variants return the empty sequence, whatever the candidates.
C6_BlankQueryNoSuggestions ==
    (ranked # "none" /\ BlankQuery) => suggestions = <<>>

\* C6 witness: a whitespace-only query was ranked over a non-empty list.
C6_Witness ==
    /\ ranked = "network"
    /\ query # <<>>
    /\ BlankQuery
    /\ stockData # <<>>
    /\ suggestions = <<>>

\* C7: for a non-empty query every suggestion is a candidate whose symbol or
\* name starts, case-insensitively, with the normalized query.
C7_SuggestionsMatchPrefix ==
    (ranked # "none" /\ ~BlankQuery) =>
        \A k \in DOMAIN suggestions :
            /\ suggestions[k] \in Range(Candidates)
            /\ SymbolMatch(suggestions[k]) \/ NameMatch(suggestions[k])

\* C7 witness: a query that normalization changes has produced a suggestion
\* that matches by its name only.
C7_Witness ==
    /\ ranked = "network"
    /\ query # NormalizedQuery
    /\ \E k \in DOMAIN suggestions :
          ~SymbolMatch(suggestions[k]) /\ NameMatch(suggestions[k])

\* C8: for a non-empty query no matching candidate that is left out, popular
\* ones in particular, ranks above a suggestion; in the static variant, which
\* has no upper bound, every matching candidate is a suggestion.
C8_NoBetterCandidateLeftOut ==
    (ranked # "none" /\ ~BlankQuery) =>
        \A c \in Range(Candidates) :
            ((SymbolMatch(c) \/ NameMatch(c)) /\ c \notin Range(suggestions)) =>
                /\ ranked # "static"
                /\ \A k \in DOMAIN suggestions : ~RanksAbove(c, suggestions[k])

\* C8 witness: the upper bound has cut a popular matching candidate off.
C8_Witness ==
    /\ ranked = "network"
    /\ Len(suggestions) = SuggestionLimit
    /\ \E c \in Range(stockData) :
          /\ c.symbol \in PopularSet
          /\ SymbolMatch(c) \/ NameMatch(c)
          /\ c \notin Range(suggestions)

\* C9: within a match bucket of the output the popular symbols precede the
\* others, and two suggestions of the same popularity are in lexicographic
\* order of their symbol code.
C9_BucketOrder ==
    ranked # "none" =>
        \A i, j \in DOMAIN suggestions :
            (i < j /\ Bucket(suggestions[i]) = Bucket(suggestions[j])) =>
                /\ suggestions[j].symbol \in PopularSet =>
                      suggestions[i].symbol \in PopularSet
                /\ (suggestions[i].symbol \in PopularSet) =
                   (suggestions[j].symbol \in PopularSet) =>
                      LexLeq(suggestions[i].symbol, suggestions[j].symbol)

\* C9 witness: a popular symbol precedes, in its bucket, a symbol that comes
\* before it in lexicographic order, and two symbols of one popularity follow.
C9_Witness ==
    /\ ranked = "network"
    /\ \E i, j \in DOMAIN suggestions :
          /\ i < j
          /\ Bucket(suggestions[i]) = Bucket(suggestions[j])
          /\ suggestions[i].symbol \in PopularSet
          /\ suggestions[j].symbol \notin PopularSet
          /\ LexLess(suggestions[j].symbol, suggestions[i].symbol)
    /\ \E i, j \in DOMAIN suggestions :
          /\ i < j
          /\ Bucket(suggestions[i]) = Bucket(suggestions[j])
          /\ suggestions[i].symbol \notin PopularSet
          /\ suggestions[j].symbol \notin PopularSet
          /\ LexLess(suggestions[i].symbol, suggestions[j].symbol)

\* C10: in the output every symbol match precedes every match by the name
\* only, whatever their popularity.
C10_SymbolMatchesFirst ==
    (ranked # "none" /\ ~BlankQuery) =>
        \A i, j \in DOMAIN suggestions :
            (SymbolMatch(suggestions[i]) /\ ~SymbolMatch(suggestions[j])) => i < j

\* C10 witness: a symbol match that is not popular precedes a popular match
\* by the name only.
C10_Witness ==
    /\ ranked = "network"
    /\ \E i, j \in DOMAIN suggestions :
          /\ i < j
          /\ SymbolMatch(suggestions[i])
          /\ suggestions[i].symbol \notin PopularSet
          /\ ~SymbolMatch(suggestions[j])
          /\ NameMatch(suggestions[j])
          /\ suggestions[j].symbol \in PopularSet

\* The positions of the candidate list that match the query.
MatchingPositions ==
    {k \in DOMAIN stockData : SymbolMatch(stockData[k]) \/ NameMatch(stockData[k])}

\* The concatenated ranking: the sorted symbol matches, then the sorted matches
\* by the name only.
FullRanking ==
    sortStocks(SelectSeq(stockData, SymbolMatch)) \o
    sortStocks(SelectSeq(stockData, LAMBDA c : ~SymbolMatch(c) /\ NameMatch(c)))

FirstN(list, n) == SubSeq(list, 1, IF Len(list) < n THEN Len(list) ELSE n)

\* C11: the network-backed variant never returns more than 10 suggestions, and
\* for a non-empty query its output is the first 10 elements of the
\* concatenated ranking, the whole ranking when it has at most 10 elements.
C11_FirstTenOfRanking ==
    ranked = "network" =>
        /\ Len(suggestions) <= 10
        /\ ~BlankQuery =>
              /\ Len(FullRanking) = Cardinality(MatchingPositions)
              /\ suggestions = FirstN(FullRanking, 10)

\* C11 witness: a ranking of more than 10 elements, matches by the name among
\* them, was cut to its first 10.
C11_Witness ==
    /\ ranked = "network"
    /\ Cardinality(MatchingPositions) > 10
    /\ \E k \in MatchingPositions : ~SymbolMatch(stockData[k])
    /\ Len(suggestions) = 10
    /\ suggestions = FirstN(FullRanking, 10)

\* C12: the output never contains the same symbol code twice, for every query
\* and every candidate list, lists in which a symbol code occurs more than
\* once included.
C12_NoDuplicateSymbols ==
    ranked # "none" =>
        \A i, j \in DOMAIN suggestions :
            suggestions[i].symbol = suggestions[j].symbol => i = j

\* The same candidates supplied in another order: every order of a short list;
\* of a longer list the reverse order and every exchange of two neighbours.
AllOrders(list) ==
    {[k \in DOMAIN list |-> list[f[k]]] :
        f \in {g \in [DOMAIN list -> DOMAIN list] : \A a, b \in DOMAIN list : g[a] = g[b] => a = b}}

Reorderings(list) ==
    IF Len(list) <= MaxCands + 1 THEN AllOrders(list)
    ELSE {Reverse(list)} \cup
         {[k \in DOMAIN list |-> IF k = i THEN list[i + 1]
                                 ELSE IF k = i + 1 THEN list[i] ELSE list[k]] :
             i \in 1..(Len(list) - 1)}

\* C13: for a fixed query the ordered output is the same for every order in
\* which the same candidates are supplied.
C13_OrderIndependent ==
    ranked = "network" =>
        \A other \in Reorderings(stockData) : getSuggestions(query, other) = suggestions

(***************************************************************************)
(* Properties of the search page.                                          *)
(***************************************************************************)
\* The symbol codes the open page knows.
KnownSymbols ==
    IF variant = "network" THEN {stockData[k].symbol : k \in DOMAIN stockData}
    ELSE Range(POPULAR_SYMBOLS)

\* The query equals a known symbol, case left aside.
ExactMatch ==
    query # <<>> /\ \E c \in KnownSymbols : toUpperCase(c) = toUpperCase(query)

\* C14: every navigation request of the search page, issued by selecting a
\* suggestion or by Enter on a query that equals a known symbol, carries a
\* symbol code in upper case.
C14_NavigationUpperCase ==
    \A k \in DOMAIN pushed :
        /\ Head(pushed[k]) = "/"
        /\ Tail(pushed[k]) = toUpperCase(Tail(pushed[k]))

\* C15: Enter pressed while the query is empty or equals no known symbol
\* issues no navigation request and leaves the query, the suggestions and the
\* candidate list as they are.
C15_UnmatchedEnterIsNoOp ==
    [][(event' = "enter" /\ ~ExactMatch) =>
          /\ pushed' = pushed
          /\ query' = query
          /\ suggestions' = suggestions
          /\ stockData' = stockData]_vars

\* C15 witness: Enter was pressed in the network-backed page on a query that
\* is a proper prefix of known symbols, with suggestions on display, and
\* nothing was pushed.
C15_Witness ==
    /\ event = "enter"
    /\ variant = "network"
    /\ query # <<>>
    /\ ~ExactMatch
    /\ suggestions # <<>>
    /\ pushed = <<>>

\* A lookup that failed: a transport error, an error status, or a body that
\* is not a list.
FailedReply(r) ==
    r.kind = "transport" \/ ~IsOk(r.status) \/ r.body.shape # "list"

\* C17: when a lookup of the network-backed page fails, the candidate list
\* and the suggestions are empty, and the page still takes every change of
\* the query and, once the debounced value differs, starts the next lookup.
C17_LookupFailureDegrades ==
    (event = "response" /\ \E r \in reply : FailedReply(r)) =>
        /\ stockData = <<>>
        /\ suggestions = <<>>
        /\ \A value \in TypedQueries \ {query} : ENABLED OnChange(value)
        /\ debouncedQuery # query => ENABLED DebounceSettles

\* C17 witness: a lookup for a query of two characters was answered with an
\* error status and an error payload; the candidates are empty.
C17_Witness ==
    /\ event = "response"
    /\ \E r \in reply : r.kind = "response" /\ ~IsOk(r.status) /\ r.body.shape = "object"
    /\ Len(query) > 1
    /\ stockData = <<>>
    /\ suggestions = <<>>

(***************************************************************************)
(* Properties of the symbol-lookup endpoint.                               *)
(***************************************************************************)
\* The provider answered with a status that is not 2xx, or with a JSON body
\* that is not a list.
UpstreamFailure(u) ==
    /\ u.kind = "response"
    /\ \/ ~IsOk(u.status)
       \/ u.body.shape = "object"

C18_MissingKeyAnswers500 ==
    apiKey = Null =>
        /\ upstreamRequests = <<>>
        /\ serverPc = "idle"
        /\ upstream = Null
        /\ response \in {Null, Some(ErrorResponse("Finnhub API key is missing", 500))}
        /\ response = Null <=> serverLog = <<>>

\* C18 witness: a request was handled without a credential.
C18_Witness ==
    /\ apiKey = Null
    /\ response = Some(ErrorResponse("Finnhub API key is missing", 500))
    /\ serverLog # <<>>
    /\ upstreamRequests = <<>>

\* C19: the response does not depend on the value of the credential: a run
\* with any other credential that receives the same reply of the provider
\* returns the same status and body, and no response carries the credential.
C19_ResponseIndependentOfKey ==
    \A r \in response :
        /\ r.body.error \notin Keys
        /\ upstream = Null => r = ErrorResponse("Finnhub API key is missing", 500)
        /\ \A u \in upstream : \A other \in Keys : Answered(Some(other), u).response = r

\* C19 witness: a run with a credential has answered an error reply of the
\* provider.
C19_Witness ==
    /\ apiKey = Some("k2")
    /\ \E u \in upstream : u.kind = "response" /\ u.status = 401
    /\ \E r \in response : r.status = 401 /\ r.body.shape = "object"
    /\ \E k \in DOMAIN upstreamRequests : upstreamRequests[k].token = Some("k2")

(***************************************************************************)
(* Properties of StockPage: the fan-out.                                   *)
(***************************************************************************)
\* The requests of a load that are in flight, and those that were answered.
InFlight(l) == {s \in Sections : l.req[s] = "pending"}
AnsweredSections(l) == {s \in Sections : l.req[s] \in Outcomes}

\* C20: the four requests of a load are issued together: from the start of
\* the load on each of them is in flight or answered, so that all four are in
\* flight before any response is consumed and none waits for another.
C20_FourRequestsInFlight ==
    \A i \in DOMAIN loads :
        /\ InFlight(loads[i]) \cup AnsweredSections(loads[i]) = Sections
        /\ AnsweredSections(loads[i]) = {} => InFlight(loads[i]) = Sections

\* C20 witness: one request of a load was answered while the three others
\* are still in flight.
C20_Witness ==
    \E i \in DOMAIN loads :
        /\ loads[i].ticker = T
        /\ Cardinality(AnsweredSections(loads[i])) = 1
        /\ Cardinality(InFlight(loads[i])) = 3

(***************************************************************************)
(* Properties of StockPage: the join, the effect and the view.             *)
(***************************************************************************)
\* C21: a load reports its outcome, merged result or error, only in a state
\* where each of its four requests has completed.
C21_OutcomeOnlyWhenAllCompleted ==
    \A i \in DOMAIN loads : loads[i].agg # "pending" => Completed(loads[i])

\* C21 as amended: a load reports the merged result only once all four
\* requests have succeeded, and it reports its error as soon as the first of
\* its requests fails, whether or not the others are still in flight; until
\* then it reports nothing.
C21_OutcomeWhenDecided ==
    \A i \in DOMAIN loads :
        /\ loads[i].agg = "fulfilled" <=> \A s \in Sections : loads[i].req[s] = "ok"
        /\ loads[i].agg = "rejected" <=> FailedSections(loads[i]) # {}
        /\ loads[i].agg = "pending" <=>
              (FailedSections(loads[i]) = {} /\ InFlight(loads[i]) # {})

\* C21 witness: a load has reported its error while three of its requests are
\* still in flight, and the error is on display.
C21_Witness ==
    \E i \in DOMAIN loads :
        /\ loads[i].agg = "rejected"
        /\ Cardinality(InFlight(loads[i])) = 3
        /\ error = loads[i].reason
        /\ Render.kind = "error"

\* The request of load i answered in this step fails as section s with the
\* given outcome.
FailsAs(i, s, outcome) ==
    /\ loads[i].req[s] = "pending"
    /\ loads'[i].req[s] = outcome
    /\ outcome \in FailOutcomes

\* C22: the error of a load is the one of its request that failed first; the
\* failures and successes of the load that arrive afterwards change neither
\* the error nor any section.
C22_FirstFailureWins ==
    [][\A i \in 1..MaxLoads :
          RespondsTo(i) =>
              /\ (loads[i].agg = "pending" /\ FailedSections(loads'[i]) # {}) =>
                    \E s \in Sections, outcome \in FailOutcomes :
                        /\ FailsAs(i, s, outcome)
                        /\ loads'[i].reason = Some(Rejection(s, outcome))
                        /\ error' = Some(Rejection(s, outcome))
              /\ loads[i].agg = "rejected" =>
                    /\ loads'[i].reason = loads[i].reason
                    /\ error' = error
                    /\ Cells' = Cells]_vars

\* C22 witness: two requests of a completed load have failed, in different
\* ways, and the error on display is the one the load reported.
C22_Witness ==
    \E i \in DOMAIN loads :
        /\ Completed(loads[i])
        /\ \E s1, s2 \in Sections :
              loads[i].req[s1] = "status" /\ loads[i].req[s2] = "transport"
        /\ error = loads[i].reason
        /\ error # Null

\* This step starts a fresh instance of the page.
FreshInstance ==
    /\ mounted'
    /\ failures' = 0
    /\ InitialCells'
    /\ Len(loads') <= 1
    /\ \A i \in DOMAIN loads' : InFlight(loads'[i]) = Sections

\* C23: one set of four requests is issued when the active ticker changes to
\* a non-empty value, or a page is opened with one, and none is issued in any
\* other step: not by a response, a failure, or a render with the same ticker.
C23_OneLoadPerNavigation ==
    [][IF T' # <<>> /\ (T' # T \/ ~mounted)
       THEN \/ /\ mounted
               /\ loads' = Append(loads, [ticker |-> T',
                                          req |-> [s \in Sections |-> "pending"],
                                          agg |-> "pending", reason |-> Null])
            \/ /\ FreshInstance
               /\ Len(loads') = 1
               /\ loads'[1].ticker = T'
       ELSE \/ Len(loads') = Len(loads) /\ \A i \in DOMAIN loads : loads'[i].ticker = loads[i].ticker
            \/ FreshInstance /\ Len(loads') = (IF T' = <<>> THEN 0 ELSE 1)]_vars

\* C23 witness: the route changed its spelling, the ticker did not, and the
\* load of the ticker, which has failed, is still the only one.
C23_Witness ==
    /\ mounted
    /\ raw = <<"a", "a">>
    /\ Len(loads) = 1
    /\ loads[1].ticker = <<"A", "A">>
    /\ loads[1].agg = "rejected"
    /\ Completed(loads[1])

\* What the .then callback of load i for ticker t stores, as the backend of
\* the model answers it.
StoredBy(i, t) ==
    << IF "predicted_price" \in DOMAIN JsonOf(i, t, "price")
       THEN {JsonOf(i, t, "price").predicted_price} ELSE {},
       IF "news" \in DOMAIN JsonOf(i, t, "news") THEN JsonOf(i, t, "news").news ELSE <<>>,
       IF "reddit" \in DOMAIN JsonOf(i, t, "reddit") THEN JsonOf(i, t, "reddit").reddit ELSE <<>>,
       IF "financials" \in DOMAIN JsonOf(i, t, "financials")
       THEN {JsonOf(i, t, "financials").financials} ELSE {},
       IF "direction" \in DOMAIN JsonOf(i, t, "financials")
       THEN {JsonOf(i, t, "financials").direction} ELSE {},
       IF "confidence" \in DOMAIN JsonOf(i, t, "financials")
       THEN {JsonOf(i, t, "financials").confidence} ELSE {} >>

\* Every section is pending: the cells hold their initial values.
AllPending == Cells = << {}, <<>>, <<>>, {}, {}, {} >>

\* C24: in every state where the newest load is the one of the active ticker,
\* the sections are all pending while that load is pending, and otherwise they
\* hold what a load for the active ticker returned, never the result of a
\* load for another ticker.
C24_ResultReplacedWholesale ==
    (T # <<>> /\ loads # <<>> /\ loads[Len(loads)].ticker = T) =>
        /\ loads[Len(loads)].agg = "pending" => AllPending
        /\ \/ AllPending
           \/ \E i \in DOMAIN loads :
                 loads[i].ticker = T /\ loads[i].agg = "fulfilled" /\ Cells = StoredBy(i, T)

StartsLoad ==
    /\ \A i \in 1..MaxLoads : ~RespondsTo(i)
    /\ loads' # loads
    /\ loads' # <<>>

\* The characters of an upper-cased string: none of them is a lower-case letter.
NoLowerCase(t) == \A k \in DOMAIN t : CodeUnit(t[k]) < 97

\* C26: the four requests of every load carry one ticker, which is not empty
\* and is the upper-cased route parameter of the navigation that started the
\* load; a navigation to an empty route parameter issues no request and
\* changes no cell.
C26_RequestsCarryUpperCasedTicker ==
    [][/\ \A i \in DOMAIN loads' : \A s \in Sections :
             /\ RequestOf(loads'[i].ticker, s).ticker # <<>>
             /\ NoLowerCase(RequestOf(loads'[i].ticker, s).ticker)
             /\ RequestOf(loads'[i].ticker, s).ticker =
                   RequestOf(loads'[i].ticker, "price").ticker
       /\ StartsLoad =>
             \A s \in Sections :
                 toLowerCase(RequestOf(loads'[Len(loads')].ticker, s).ticker) =
                     toLowerCase(raw')
       /\ (T' = <<>> /\ \A i \in 1..MaxLoads : ~RespondsTo(i)) =>
             \/ loads' = loads /\ Cells' = Cells /\ error' = error
             \/ loads' = <<>> /\ InitialCells']_vars

\* C26 witness: a load was started from a lower-case route parameter and its
\* four requests, all in flight, carry the upper-cased ticker.
C26_Witness ==
    /\ raw = <<"p", "l">>
    /\ Len(loads) = 1
    /\ \A s \in Sections : RequestOf(loads[1].ticker, s).ticker = <<"P", "L">>
    /\ InFlight(loads[1]) = Sections

\* C29: once the four requests of the load of the active ticker have
\* succeeded and no error is reported, no section of the view is left in its
\* loading state.
C29_SuccessLeavesNoSectionLoading ==
    (/\ T # <<>>
     /\ loads # <<>>
     /\ loads[Len(loads)].ticker = T
     /\ loads[Len(loads)].agg = "fulfilled"
     /\ \A i \in DOMAIN loads : Completed(loads[i])
     /\ error = Null) =>
        (Render.kind = "dashboard" /\ Render.shown = Sections)


(***************************************************************************)
(* Properties of the search page: debounce, late responses, confirmation.  *)
(***************************************************************************)
\* C27: in the network-backed page a lookup is issued only in the step in
\* which the debounced value catches up with a query that has stayed as it is,
\* and it is the lookup of that value; a keystroke issues none, so a value
\* replaced before it settles is never looked up; and one step of the
\* debounced value issues one lookup, so a settled value is looked up once.
C27_LookupOnlyForSettledValue ==
    [][inflight' > inflight =>
          /\ variant = "network"
          /\ event' = "debounce"
          /\ query' = query
          /\ debouncedQuery # query
          /\ debouncedQuery' = query
          /\ Len(query) > 1
          /\ inflight' = inflight + 1
          /\ latest' = Some([query |-> query, pending |-> TRUE, data |-> <<>>])]_vars

\* C27 witness: two values have settled one after the other and each has
\* issued its lookup; the one fetched last is for the query in the box.
C27_Witness ==
    /\ variant = "network"
    /\ event = "debounce"
    /\ inflight = 2
    /\ debouncedQuery = query
    /\ \E l \in latest : l.query = query /\ l.pending

\* C28: in the network-backed page, once no lookup is outstanding, the
\* candidate list is the one the lookup of the latest settled query came back
\* with, and it is empty when that query has fewer than 2 characters.
C28_LateResponseNeverReplaces ==
    (variant = "network" /\ inflight = 0) =>
        IF Len(debouncedQuery) < 2 THEN stockData = <<>>
        ELSE \E l \in latest : l.query = debouncedQuery /\ stockData = l.data

\* The query, trimmed and case left aside, equals a known symbol.
TrimmedMatch ==
    /\ NormalizedQuery # <<>>
    /\ \E c \in KnownSymbols : toLowerCase(c) = NormalizedQuery

\* C30: whenever the trimmed, case-folded query equals a known symbol, Enter
\* issues a navigation request for that symbol, also when the query as typed
\* has leading or trailing whitespace.
C30_EnterNormalizesLikeRank ==
    [][(event' = "enter" /\ TrimmedMatch) =>
          /\ Len(pushed') = Len(pushed) + 1
          /\ toLowerCase(Tail(pushed'[Len(pushed')])) = NormalizedQuery]_vars

====
